---- MODULE Spec2Model ----
(***************************************************************************)
(* A model of ppetko/aws: the Glacier tree hash (glacier/treehash.go) and  *)
(* the Signature Version 4 helpers (aws.go).                               *)
(*                                                                         *)
(* Byte strings and Go strings are sequences of one-character strings.     *)
(* SHA-256 and HMAC-SHA256 are modelled symbolically, as injective         *)
(* bracketings of their inputs: two digests are equal exactly when they    *)
(* were computed over the same bytes (no collisions).                      *)
(***************************************************************************)
EXTENDS Integers, Sequences, FiniteSets, TLC

VARIABLES
    th,         \* the TreeHash instance (glacier/treehash.go:62-68)
    data,       \* the caller's input bytes
    pos,        \* how many bytes of data the caller has written since Reset
    closes,     \* Close calls since NewTreeHash / Reset
    dirty,      \* TRUE when a Write followed a Close with no Reset between
    lastOp,     \* the call made last
    lastErr,    \* the error that call returned
    writes,     \* lengths of the slices written since Reset, in call order
    before,     \* the instance as it was when the last call started
    finalized,  \* treeHash and linearHash as the first Close left them
    t,          \* the MultiTreeHasher instance (glacier/treehash.go:13-15)
    parts,      \* sizes in bytes of the parts hashed and added so far
    added,      \* the digests given to Add so far, in call order
    creates,    \* CreateHash calls so far
    lastHash,   \* what the last CreateHash returned
    leaves,     \* the argument of a direct treeHash call
    root,       \* what that call returned
    sigArgs,    \* the arguments of a NewSignature call
    sig,        \* what that call returned
    r,          \* the *http.Request given to CreateCanonicalRequest
    r0,         \* that request as it was before the first call
    calls,      \* CreateCanonicalRequest calls on r so far
    cr,         \* what the last call returned
    cr1         \* what the first call returned

vars == << th, data, pos, closes, dirty, lastOp, lastErr, writes, before, finalized,
           t, parts, added, creates, lastHash, leaves, root,
           sigArgs, sig, r, r0, calls, cr, cr1 >>

thVars == << th, closes, dirty, lastErr, writes, before, finalized >>
mtVars == << t, parts, added, creates, lastHash >>
rdVars == << leaves, root >>
sgVars == << sigArgs, sig >>
crVars == << r, r0, calls, cr, cr1 >>

----------------------------------------------------------------------------
(* Bounds *)

\* 1<<20 in the source (glacier/treehash.go:94), scaled down
ChunkSize == 2
\* length of the caller's input
MaxBytes == 5
\* Close calls between two Resets
MaxCloses == 2
\* Write calls between two Resets
MaxWrites == 3
\* length of the body uploaded in parts
MaxBody == 8
\* CreateHash calls on one MultiTreeHasher
MaxCreates == 2
\* leaves given to one treeHash call
MaxLeaves == 5
\* length of a request path
MaxPath == 6
\* CreateCanonicalRequest calls on one request
MaxCalls == 2

Bytes == {"a", "b"}

SeqsOfLen(S, n) == [1..n -> S]
SeqsUpTo(S, n) == UNION {SeqsOfLen(S, k) : k \in 0..n}

----------------------------------------------------------------------------
(* crypto/sha256, encoding/hex *)

\* sha256.Sum256(b), and hash.Hash.Sum over the bytes written so far
Sum256(b) == <<"{">> \o b \o <<"}">>

\* [sha256.Size]byte{}: the zero value of a digest
ZeroDigest == <<"NUL">>

Nil == <<"nil">>

Letters == << "a", "b", "c", "d", "e", "f", "g", "h", "i", "j" >>
Symbols == {"NUL", "{", "}"} \cup {Letters[i] : i \in 1..Len(Letters)}

\* the value of a byte of the model: its ASCII code
ByteValue(c) ==
    CASE c = "NUL" -> 0
      [] c = "{" -> 123
      [] c = "}" -> 125
      [] OTHER -> 96 + (CHOOSE i \in 1..Len(Letters) : Letters[i] = c)

ByteOf(v) == IF \E c \in Symbols : ByteValue(c) = v
             THEN CHOOSE c \in Symbols : ByteValue(c) = v
             ELSE "?"

HexDigits == << "0", "1", "2", "3", "4", "5", "6", "7",
                "8", "9", "a", "b", "c", "d", "e", "f" >>
UpperHex == << "A", "B", "C", "D", "E", "F" >>

\* hex.EncodeToString: two lower-case digits for each byte
EncodeToString(d) ==
    [i \in 1..(2 * Len(d)) |->
        LET v == ByteValue(d[(i + 1) \div 2])
        IN  IF i % 2 = 1 THEN HexDigits[v \div 16 + 1] ELSE HexDigits[(v % 16) + 1]]

\* hex.fromHexChar: the value of a digit of either case, -1 for any other character
fromHexChar(ch) ==
    IF \E i \in 1..16 : HexDigits[i] = ch
    THEN (CHOOSE i \in 1..16 : HexDigits[i] = ch) - 1
    ELSE IF \E i \in 1..6 : UpperHex[i] = ch
         THEN (CHOOSE i \in 1..6 : UpperHex[i] = ch) + 9
         ELSE -1

\* hex.Decode: the bytes decoded before the first invalid pair, if any
RECURSIVE DecodeFrom(_, _)
DecodeFrom(src, i) ==
    IF i + 1 > Len(src)
    THEN <<>>
    ELSE LET hi == fromHexChar(src[i])
             lo == fromHexChar(src[i + 1])
         IN  IF hi < 0 \/ lo < 0
             THEN <<>>
             ELSE <<ByteOf(16 * hi + lo)>> \o DecodeFrom(src, i + 2)

Decode(src) == DecodeFrom(src, 1)

----------------------------------------------------------------------------
(* glacier/treehash.go: treeHash *)

\* lines 40-44: nodes[i] = Sum256(nodes[2i] || nodes[2i+1]) for i < len/2,
\* in place (Go indexes from 0, the model from 1)
RECURSIVE PairLoop(_, _, _)
PairLoop(arr, i, n) ==
    IF i < n \div 2
    THEN PairLoop([arr EXCEPT ![i + 1] = Sum256(arr[2 * i + 1] \o arr[2 * i + 2])],
                  i + 1, n)
    ELSE arr

\* treeHash with the last node of an odd level hashed with itself instead of
\* carried over
RECURSIVE LevelLoopSelfHash(_, _)
LevelLoopSelfHash(arr, n) ==
    IF n > 1
    THEN LET a1 == PairLoop(arr, 0, n)
         IN  IF n % 2 = 0
             THEN LevelLoopSelfHash(a1, n \div 2)
             ELSE LevelLoopSelfHash(
                      [a1 EXCEPT ![n \div 2 + 1] = Sum256(a1[n] \o a1[n])],
                      n \div 2 + 1)
    ELSE arr

\* lines 39-51: the array and the length of the local slice when the loop ends.
\* The elements beyond n keep whatever the earlier levels left there.
RECURSIVE LevelLoop(_, _)
LevelLoop(arr, n) ==
    IF n > 1
    THEN LET a1 == PairLoop(arr, 0, n)
         IN  IF n % 2 = 0
             THEN LevelLoop(a1, n \div 2)
             ELSE LevelLoop([a1 EXCEPT ![n \div 2 + 1] = a1[n]], n \div 2 + 1)
    ELSE arr

\* line 52: the root, nodes[0]
treeHash(nodes) == LevelLoop(nodes, Len(nodes))[1]

\* the caller's slice after the call: same length, elements overwritten in
\* place, since the slice shares its backing array with the parameter
treeHashAliased(nodes) == LevelLoop(nodes, Len(nodes))

----------------------------------------------------------------------------
(* glacier/treehash.go: MultiTreeHasher *)

\* Add putting the node in front of the others
AddInFront(m, hash) == [m EXCEPT !.nodes = <<Decode(hash)>> \o @]

\* lines 19-23: the error of hex.Decode is dropped, the node is appended
Add(m, hash) == [m EXCEPT !.nodes = Append(@, Decode(hash))]

\* lines 27-33: the string returned
CreateHash(m) ==
    IF Len(m.nodes) = 0 THEN <<>> ELSE EncodeToString(treeHash(m.nodes))

\* lines 27-33: the hasher after the call; treeHash works on t.nodes itself
CreateHashAliased(m) ==
    IF Len(m.nodes) = 0 THEN m ELSE [m EXCEPT !.nodes = treeHashAliased(m.nodes)]

----------------------------------------------------------------------------
(* glacier/treehash.go: TreeHash *)

\* lines 81-87
Reset(s) ==
    [remaining |-> <<>>, nodes |-> <<>>, runningHash |-> <<>>,
     treeHash |-> ZeroDigest, linearHash |-> ZeroDigest]

\* lines 71-78
NewTreeHash == Reset([remaining |-> <<>>, nodes |-> <<>>, runningHash |-> <<>>,
                      treeHash |-> ZeroDigest, linearHash |-> ZeroDigest])

\* the loop of Write without line 117: what is left of p is dropped
RECURSIVE WriteLoopDropRest(_, _)
WriteLoopDropRest(s, p) ==
    IF Len(p) >= ChunkSize
    THEN WriteLoopDropRest(
             [s EXCEPT !.nodes = Append(@, Sum256(SubSeq(p, 1, ChunkSize))),
                       !.runningHash = @ \o SubSeq(p, 1, ChunkSize)],
             SubSeq(p, ChunkSize + 1, Len(p)))
    ELSE s

\* lines 110-117: every whole chunk left in p becomes a node, the rest is kept
RECURSIVE WriteLoop(_, _)
WriteLoop(s, p) ==
    IF Len(p) >= ChunkSize
    THEN WriteLoop([s EXCEPT !.nodes = Append(@, Sum256(SubSeq(p, 1, ChunkSize))),
                             !.runningHash = @ \o SubSeq(p, 1, ChunkSize)],
                   SubSeq(p, ChunkSize + 1, Len(p)))
    ELSE [s EXCEPT !.remaining = @ \o p]

\* lines 90-120: the instance after Write(p), the count and the error returned
Write(s, p) ==
    IF Len(s.remaining) + Len(p) < ChunkSize
    THEN [th |-> [s EXCEPT !.remaining = @ \o p], n |-> Len(p), err |-> "nil"]
    ELSE LET fill == ChunkSize - Len(s.remaining)
             full == s.remaining \o SubSeq(p, 1, fill)
             s1 == [s EXCEPT !.nodes = Append(@, Sum256(full)),
                             !.runningHash = @ \o full,
                             !.remaining = <<>>]
         IN  [th |-> WriteLoop(s1, SubSeq(p, fill + 1, Len(p))),
              n |-> Len(p), err |-> "nil"]

\* lines 123-135
Close(s) ==
    LET s1 == IF Len(s.remaining) > 0
              THEN [s EXCEPT !.nodes = Append(@, Sum256(s.remaining)),
                             !.runningHash = @ \o s.remaining]
              ELSE s
        s2 == IF Len(s1.nodes) > 0
              THEN [s1 EXCEPT !.treeHash = treeHash(s1.nodes),
                              !.nodes = treeHashAliased(s1.nodes)]
              ELSE s1
    IN  [s2 EXCEPT !.linearHash = Sum256(s2.runningHash)]

----------------------------------------------------------------------------
(* Go strings: bytes in ASCII order, package strings, package sort *)

\* the printable ASCII characters, from 32 (space) to 126 ("GRAVE" stands
\* for the grave accent, 96)
Printable == <<
    " ", "!", "\"", "#", "$", "%", "&", "'", "(", ")", "*", "+",
    ",", "-", ".", "/", "0", "1", "2", "3", "4", "5", "6", "7",
    "8", "9", ":", ";", "<", "=", ">", "?", "@", "A", "B", "C",
    "D", "E", "F", "G", "H", "I", "J", "K", "L", "M", "N", "O",
    "P", "Q", "R", "S", "T", "U", "V", "W", "X", "Y", "Z", "[",
    "\\", "]", "^", "_", "GRAVE", "a", "b", "c", "d", "e", "f", "g",
    "h", "i", "j", "k", "l", "m", "n", "o", "p", "q", "r", "s",
    "t", "u", "v", "w", "x", "y", "z", "{", "|", "}", "~" >>

CodeTable == [c \in {Printable[i] : i \in 1..Len(Printable)} |->
                 31 + (CHOOSE i \in 1..Len(Printable) : Printable[i] = c)]

Code(c) == CodeTable[c]

IsUpper(c) == Code(c) >= 65 /\ Code(c) <= 90
IsLower(c) == Code(c) >= 97 /\ Code(c) <= 122
IsDigit(c) == Code(c) >= 48 /\ Code(c) <= 57

\* strings.ToLower
ToLower(str) == [i \in 1..Len(str) |->
                    IF IsUpper(str[i]) THEN Printable[Code(str[i]) + 32 - 31] ELSE str[i]]

\* strings.TrimSpace
RECURSIVE TrimLeft(_)
TrimLeft(str) == IF Len(str) > 0 /\ str[1] = " " THEN TrimLeft(Tail(str)) ELSE str
RECURSIVE TrimRight(_)
TrimRight(str) ==
    IF Len(str) > 0 /\ str[Len(str)] = " "
    THEN TrimRight(SubSeq(str, 1, Len(str) - 1))
    ELSE str
TrimSpace(str) == TrimRight(TrimLeft(str))

\* the order of Go strings: byte by byte, a proper prefix first
StrLess(a, b) ==
    \E i \in 1..Len(b) :
        /\ i <= Len(a) + 1
        /\ \A j \in 1..(i - 1) : a[j] = b[j]
        /\ i = Len(a) + 1 \/ Code(a[i]) < Code(b[i])

\* x put at position k + 1 of a sequence
InsertAt(strs, k, x) == SubSeq(strs, 1, k) \o <<x>> \o SubSeq(strs, k + 1, Len(strs))

\* x put after the elements of a sorted sequence that are less than it
Insert(sorted, x) ==
    InsertAt(sorted, Cardinality({i \in 1..Len(sorted) : StrLess(sorted[i], x)}), x)

\* sort.Strings
RECURSIVE SortStrings(_)
SortStrings(strs) ==
    IF Len(strs) = 0 THEN <<>> ELSE Insert(SortStrings(Tail(strs)), Head(strs))

\* strings.Join
RECURSIVE Join(_, _)
Join(strs, sep) ==
    IF Len(strs) = 0 THEN <<>>
    ELSE IF Len(strs) = 1 THEN strs[1]
    ELSE strs[1] \o sep \o Join(Tail(strs), sep)

\* strings.Split on a one-character separator
RECURSIVE Split(_, _)
Split(str, c) ==
    IF \E i \in 1..Len(str) : str[i] = c
    THEN LET i == CHOOSE i \in 1..Len(str) :
                      str[i] = c /\ \A j \in 1..(i - 1) : str[j] # c
         IN  <<SubSeq(str, 1, i - 1)>> \o Split(SubSeq(str, i + 1, Len(str)), c)
    ELSE <<str>>

\* the elements of a finite set of strings, in some order
RECURSIVE SetToSeq(_)
SetToSeq(set) ==
    IF set = {} THEN <<>>
    ELSE LET x == CHOOSE x \in set : TRUE IN <<x>> \o SetToSeq(set \ {x})

----------------------------------------------------------------------------
(* aws.go: encode *)

\* lines 26-36
unreserved(c) == IsUpper(c) \/ IsLower(c) \/ IsDigit(c) \/ c \in {"-", "_", ".", "~"}

UpperHexDigits == << "0", "1", "2", "3", "4", "5", "6", "7",
                     "8", "9", "A", "B", "C", "D", "E", "F" >>

\* lines 39-67
RECURSIVE encode(_)
encode(str) ==
    IF Len(str) = 0 THEN <<>>
    ELSE LET c == Head(str)
         IN  (IF unreserved(c)
              THEN <<c>>
              ELSE << "%", UpperHexDigits[Code(c) \div 16 + 1],
                      UpperHexDigits[(Code(c) % 16) + 1] >>)
             \o encode(Tail(str))

----------------------------------------------------------------------------
(* aws.go: NewSignature *)

AWS4 == << "A", "W", "S", "4" >>
AWS4REQUEST == << "a", "w", "s", "4", "_", "r", "e", "q", "u", "e", "s", "t" >>
HOST == << "h", "o", "s", "t" >>

\* hmac.New(sha256.New, key), Write(msg), Sum(nil)
HMAC(key, msg) == <<"[">> \o key \o <<"|">> \o msg \o <<"]">>

TwoDigits(n) == << HexDigits[n \div 10 + 1], HexDigits[(n % 10) + 1] >>

\* time.Time.Format(iSO8601BasicFormatShort), lines 21-24
FormatShort(tm) ==
    TwoDigits(tm.year \div 100) \o TwoDigits(tm.year % 100)
        \o TwoDigits(tm.month) \o TwoDigits(tm.day)

\* lines 90-101: the value the four chained HMACs leave in h
SigningChain(k, tm, region, service) ==
    LET h1 == HMAC(AWS4 \o k.Secret, FormatShort(tm))
        h2 == HMAC(h1, region.Name)
        h3 == HMAC(h2, service)
    IN  HMAC(h3, AWS4REQUEST)

\* lines 90-103: h is never summed into a Signature, nil is returned
NewSignature(k, tm, region, service) ==
    LET h == SigningChain(k, tm, region, service) IN Nil

----------------------------------------------------------------------------
(* aws.go: CreateCanonicalRequest *)

\* path.Clean of a rooted path: empty and "." elements are dropped, ".."
\* removes the element before it, if any; no trailing slash but for the root
RECURSIVE CleanElements(_, _)
CleanElements(elems, kept) ==
    IF Len(elems) = 0 THEN kept
    ELSE LET e == Head(elems)
         IN  IF e = <<>> \/ e = <<".">>
             THEN CleanElements(Tail(elems), kept)
             ELSE IF e = <<".", ".">>
                  THEN CleanElements(Tail(elems),
                                     IF Len(kept) = 0 THEN kept
                                     ELSE SubSeq(kept, 1, Len(kept) - 1))
                  ELSE CleanElements(Tail(elems), Append(kept, e))

Clean(path) ==
    LET kept == CleanElements(Split(Tail(path), "/"), <<>>)
    IN  IF Len(kept) = 0 THEN <<"/">> ELSE <<"/">> \o Join(kept, <<"/">>)

\* lines 122-130: whether a trailing slash is put back
TrailingSlash(path) ==
    /\ path[Len(path)] = "/"
    /\ \E i \in 2..(Len(path) - 1) : path[i] # "/" /\ path[i] # "."

\* lines 131-135
RECURSIVE EncodeParts(_)
EncodeParts(elems) ==
    IF Len(elems) = 0 THEN <<>>
    ELSE <<"/">> \o encode(Head(elems)) \o EncodeParts(Tail(elems))

\* lines 122-138: the canonical path
CanonicalPath(path) ==
    EncodeParts(Split(Tail(Clean(path)), "/"))
        \o (IF TrailingSlash(path) THEN <<"/">> ELSE <<>>)

\* url.QueryUnescape: "+" is a space, "%XY" the byte XY; Bad for a "%" that
\* two hex digits do not follow
Bad == <<"EscapeError">>

\* c before the rest of an unescaped string, unless the rest failed
Unescaped(c, rest) == IF rest = Bad THEN Bad ELSE <<c>> \o rest

CharOf(v) == IF v >= 32 /\ v <= 126 THEN Printable[v - 31] ELSE "?"

RECURSIVE QueryUnescape(_)
QueryUnescape(str) ==
    IF Len(str) = 0 THEN <<>>
    ELSE IF Head(str) = "+"
         THEN Unescaped(" ", QueryUnescape(Tail(str)))
    ELSE IF Head(str) = "%"
         THEN IF Len(str) < 3 \/ fromHexChar(str[2]) < 0 \/ fromHexChar(str[3]) < 0
              THEN Bad
              ELSE Unescaped(CharOf(16 * fromHexChar(str[2]) + fromHexChar(str[3])),
                             QueryUnescape(SubSeq(str, 4, Len(str))))
    ELSE Unescaped(Head(str), QueryUnescape(Tail(str)))

\* one "key=value" piece of a query, cut at its first "=": the pair, unescaped
CutPair(cut) ==
    [key |-> QueryUnescape(cut[1]),
     value |-> QueryUnescape(IF Len(cut) = 1 THEN <<>> ELSE Join(Tail(cut), <<"=">>))]

QueryPair(piece) == CutPair(Split(piece, "="))

\* url.ParseQuery: the pairs of the non-empty pieces between "&", in order
RECURSIVE ParsePieces(_)
ParsePieces(pieces) ==
    IF Len(pieces) = 0 THEN <<>>
    ELSE (IF Head(pieces) = <<>> THEN <<>> ELSE <<QueryPair(Head(pieces))>>)
            \o ParsePieces(Tail(pieces))

ParseQuery(raw) == ParsePieces(Split(raw, "&"))

PairsFail(pairs) ==
    \E i \in 1..Len(pairs) : pairs[i].key = Bad \/ pairs[i].value = Bad

\* query[key]: the values of a key in the order they appear
RECURSIVE ValuesOf(_, _)
ValuesOf(pairs, key) ==
    IF Len(pairs) = 0 THEN <<>>
    ELSE (IF Head(pairs).key = key THEN <<Head(pairs).value>> ELSE <<>>)
            \o ValuesOf(Tail(pairs), key)

\* lines 164-171: the sorted parameters of one key
RECURSIVE KeyParams(_, _)
KeyParams(key, params) ==
    IF Len(params) = 0 THEN <<>>
    ELSE <<encode(key) \o <<"=">> \o encode(Head(params))>>
            \o KeyParams(key, Tail(params))

RECURSIVE AllParams(_, _)
AllParams(keys, pairs) ==
    IF Len(keys) = 0 THEN <<>>
    ELSE KeyParams(Head(keys), SortStrings(ValuesOf(pairs, Head(keys))))
            \o AllParams(Tail(keys), pairs)

\* lines 154-172: the canonical query string
CanonicalQuery(pairs) ==
    Join(AllParams(SortStrings(SetToSeq({pairs[i].key : i \in 1..Len(pairs)})), pairs),
         <<"&">>)

\* lines 188-192: the names appended to headers and the variant headersMap
\* keeps for each, when the map is ranged over in the given order
LowerName(name) == ToLower(TrimSpace(name))

HeaderList(order) == [i \in 1..Len(order) |-> LowerName(order[i])]

HeadersMap(order, header) ==
    order[CHOOSE i \in 1..Len(order) :
              /\ LowerName(order[i]) = header
              /\ \A j \in (i + 1)..Len(order) : LowerName(order[j]) # header]

\* lines 193-194
SignedHeaders(order) == SortStrings(Append(HeaderList(order), HOST))

\* lines 195-217: one "name:value\n" line for each element of headers
RECURSIVE HeaderLines(_, _, _)
HeaderLines(req, order, headers) ==
    IF Len(headers) = 0 THEN <<>>
    ELSE LET h == Head(headers)
             value == IF h = HOST
                      THEN req.Host
                      ELSE Join(SortStrings(req.Header[HeadersMap(order, h)]), <<",">>)
         IN  h \o <<":">> \o value \o <<"\n">> \o HeaderLines(req, order, Tail(headers))

\* line 209: sort.Strings sorts the values of the request's own header
SortedInPlace(req, order) ==
    [name \in DOMAIN req.Header |->
        IF LowerName(name) # HOST /\ HeadersMap(order, LowerName(name)) = name
        THEN SortStrings(req.Header[name])
        ELSE req.Header[name]]

\* lines 234-243: what is left of the body is read and hashed
BodyDigest(body) ==
    EncodeToString(Sum256(SubSeq(body.content, body.off + 1, Len(body.content))))

\* lines 110-245: the bytes written to crb and what is returned with them
Assemble(req, order, cp, cqs, headers, block) ==
    [bytes |-> req.Method \o <<"\n">> \o cp \o <<"\n">> \o cqs \o <<"\n">>
                  \o block \o <<"\n">>
                  \o Join(headers, <<";">>) \o <<"\n">>
                  \o BodyDigest(req.Body),
     headers |-> headers,
     err |-> "nil",
     r |-> [req EXCEPT !.Header = SortedInPlace(req, order),
                       !.Body.off = Len(req.Body.content)],
     path |-> cp,
     block |-> block]

\* lines 150-153: the call returns when the query does not parse
WithQuery(req, order, pairs) ==
    IF PairsFail(pairs)
    THEN [bytes |-> Nil, headers |-> Nil, err |-> "EscapeError", r |-> req,
          path |-> Nil, block |-> Nil]
    ELSE Assemble(req, order, CanonicalPath(req.URL.Path), CanonicalQuery(pairs),
                  SignedHeaders(order), HeaderLines(req, order, SignedHeaders(order)))

\* lines 106-246, for a request whose header map is ranged over in the given
\* order: the bytes, the signed headers and the error returned, the request
\* as the call leaves it, and two sections of the bytes
CreateCanonicalRequest(req, order) ==
    WithQuery(req, order, ParseQuery(req.URL.RawQuery))

----------------------------------------------------------------------------
(* One TreeHash instance driven by a caller *)

NoResults == [treeHash |-> ZeroDigest, linearHash |-> ZeroDigest]

IdleTH == /\ th = NewTreeHash /\ closes = 0
          /\ dirty = FALSE /\ lastErr = "nil" /\ writes = <<>>
          /\ before = NewTreeHash /\ finalized = NoResults
IdleMT == /\ t = [nodes |-> <<>>] /\ parts = <<>> /\ added = <<>>
          /\ creates = 0 /\ lastHash = Nil
IdleRD == /\ leaves = <<>> /\ root = Nil
IdleSG == /\ sigArgs = Nil /\ sig = Nil
IdleCR == /\ r = Nil /\ r0 = Nil /\ calls = 0 /\ cr = Nil /\ cr1 = Nil

Init ==
    /\ th = NewTreeHash
    /\ data \in SeqsUpTo(Bytes, MaxBytes)
    /\ pos = 0 /\ closes = 0 /\ dirty = FALSE
    /\ lastOp = "New" /\ lastErr = "nil"
    /\ writes = <<>> /\ before = NewTreeHash /\ finalized = NoResults
    /\ IdleMT /\ IdleRD /\ IdleSG /\ IdleCR

\* th.Write(p) with the next k bytes of the input
DoWrite ==
    \E k \in 0..(Len(data) - pos) :
        LET w == Write(th, SubSeq(data, pos + 1, pos + k))
        IN  /\ Len(writes) < MaxWrites
            /\ th' = w.th
            /\ lastErr' = w.err
            /\ pos' = pos + k
            /\ writes' = Append(writes, k)
            /\ dirty' = (dirty \/ closes > 0)
            /\ before' = th
            /\ lastOp' = "Write"
            /\ UNCHANGED << data, closes, finalized, mtVars, rdVars, sgVars, crVars >>

\* th.Close()
DoClose ==
    /\ closes < MaxCloses
    /\ th' = Close(th)
    /\ closes' = closes + 1
    /\ finalized' = IF closes = 0
                    THEN [treeHash |-> th'.treeHash, linearHash |-> th'.linearHash]
                    ELSE finalized
    /\ before' = th
    /\ lastOp' = "Close"
    /\ lastErr' = "nil"
    /\ UNCHANGED << data, pos, dirty, writes, mtVars, rdVars, sgVars, crVars >>

\* th.Reset()
DoReset ==
    /\ lastOp # "New"
    /\ th' = Reset(th)
    /\ pos' = 0 /\ closes' = 0 /\ dirty' = FALSE
    /\ writes' = <<>> /\ finalized' = NoResults
    /\ before' = th
    /\ lastOp' = "Reset"
    /\ lastErr' = "nil"
    /\ UNCHANGED << data, mtVars, rdVars, sgVars, crVars >>

Next == DoWrite \/ DoClose \/ DoReset

Spec == Init /\ [][Next]_vars

\* What one Write of all of b and one Close leave in a fresh instance
OneShot(b) == Close(Write(NewTreeHash, b).th)

\* C1: whatever the partition of the input into Write calls, Close leaves the
\* treeHash and the linearHash that a single Write of the same bytes followed
\* by Close leaves.
C1_PartitionInvariant ==
    (closes = 1 /\ ~dirty) =>
        /\ th.treeHash = OneShot(SubSeq(data, 1, pos)).treeHash
        /\ th.linearHash = OneShot(SubSeq(data, 1, pos)).linearHash

\* C1 witness: three leaves written in three calls, none of chunk length: an
\* empty slice, a slice ending inside a chunk, a slice spanning two chunks.
C1_Witness ==
    /\ closes = 1 /\ ~dirty /\ lastOp = "Close"
    /\ writes = << 0, 1, 2 * ChunkSize >>
    /\ Len(th.nodes) = 3

\* C4: a Close that follows a Close, with no Write and no Reset between them,
\* leaves treeHash and linearHash as the first Close left them.
C4_CloseIdempotent ==
    (closes >= 1 /\ ~dirty) =>
        /\ th.treeHash = finalized.treeHash
        /\ th.linearHash = finalized.linearHash

\* C5: a Write that follows a Close, with no Reset between them, returns
\* InvalidStateError and leaves the leaves, the buffer, the running digest and
\* the finalized results as they were.
C5_WriteAfterCloseFails ==
    (lastOp = "Write" /\ closes >= 1) =>
        /\ lastErr = "InvalidStateError"
        /\ th = before

----------------------------------------------------------------------------
(* A body uploaded in parts: each part is hashed by a TreeHash of its own *)
(* and its tree hash is given, hex-encoded, to one MultiTreeHasher        *)

\* the body whose bytes all differ, and the one whose bytes are all the same
Bodies == { SubSeq(Letters, 1, MaxBody), [i \in 1..MaxBody |-> "a"] }

InitMulti ==
    /\ data \in Bodies
    /\ pos = 0
    /\ t = [nodes |-> <<>>]
    /\ parts = <<>> /\ added = <<>> /\ creates = 0 /\ lastHash = Nil
    /\ lastOp = "New"
    /\ IdleTH /\ IdleRD /\ IdleSG /\ IdleCR

\* the next k bytes of the body are hashed as one part and its tree hash added
AddPart ==
    \E k \in 1..(Len(data) - pos) :
        LET part == SubSeq(data, pos + 1, pos + k)
            p == Close(Write(NewTreeHash, part).th)
        IN  /\ t' = Add(t, EncodeToString(p.treeHash))
            /\ added' = Append(added, p.treeHash)
            /\ parts' = Append(parts, k)
            /\ pos' = pos + k
            /\ lastOp' = "Add"
            /\ UNCHANGED << data, creates, lastHash, thVars, rdVars, sgVars, crVars >>

\* t.CreateHash()
DoCreateHash ==
    /\ creates < MaxCreates
    /\ lastHash' = CreateHash(t)
    /\ t' = CreateHashAliased(t)
    /\ creates' = creates + 1
    /\ lastOp' = "CreateHash"
    /\ UNCHANGED << data, pos, parts, added, thVars, rdVars, sgVars, crVars >>

NextMulti == AddPart \/ DoCreateHash

SpecMulti == InitMulti /\ [][NextMulti]_vars

\* The reduction of section 4.6: each adjacent pair of a level becomes the
\* digest of its concatenation, the last node of an odd level is carried over
NextLevel(s) ==
    [i \in 1..((Len(s) + 1) \div 2) |->
        IF 2 * i <= Len(s) THEN Sum256(s[2 * i - 1] \o s[2 * i]) ELSE s[2 * i - 1]]

RECURSIVE Reduce(_)
Reduce(s) == IF Len(s) <= 1 THEN s[1] ELSE Reduce(NextLevel(s))

IsPowerOfTwo(m) == \E n \in 0..m : m = 2 ^ n

\* every part but the last is a whole number of chunks
ChunkAligned == \A i \in 1..(Len(parts) - 1) : parts[i] % ChunkSize = 0

\* every part but the last has the same size, a power of two of chunks, and
\* the last part is no longer than the others
PowerOfTwoParts ==
    Len(parts) > 1 =>
        /\ parts[1] % ChunkSize = 0
        /\ IsPowerOfTwo(parts[1] \div ChunkSize)
        /\ \A i \in 1..(Len(parts) - 1) : parts[i] = parts[1]
        /\ parts[Len(parts)] <= parts[1]

FirstCreateHash == lastOp = "CreateHash" /\ creates = 1 /\ Len(parts) >= 1

SameAsWholeBody == lastHash = EncodeToString(OneShot(SubSeq(data, 1, pos)).treeHash)

\* C2 as stated: when every part but the last is a whole number of chunks,
\* CreateHash returns the hex tree hash of the whole body.
C2_AlignedParts == (FirstCreateHash /\ ChunkAligned) => SameAsWholeBody

\* C2 as amended: when every part but the last has the same size, which is a
\* power of two of chunks, and the last part is not empty and no longer than
\* the others, CreateHash returns the hex tree hash of the whole body.
C2_PowerOfTwoParts == (FirstCreateHash /\ PowerOfTwoParts) => SameAsWholeBody

\* C2 witness: parts of two chunks each and a last part one byte short of two
\* chunks, of the body whose bytes all differ
C2_Witness ==
    /\ FirstCreateHash
    /\ Len(parts) >= 2
    /\ parts[1] = 2 * ChunkSize
    /\ parts[Len(parts)] = 2 * ChunkSize - 1
    /\ PowerOfTwoParts
    /\ data = SubSeq(Letters, 1, MaxBody)

\* C10: CreateHash returns the hex of the reduction of all the digests added
\* so far, in call order, and the empty string when none was added.
C10_CreateHashPure ==
    lastOp = "CreateHash" =>
        lastHash = IF added = <<>> THEN <<>> ELSE EncodeToString(Reduce(added))

----------------------------------------------------------------------------
(* treeHash called on a sequence of leaf digests *)

LeafDigests == { Sum256(<<Letters[i]>>) : i \in 1..3 }

InitReduce ==
    /\ leaves \in UNION { SeqsOfLen(LeafDigests, n) : n \in 1..MaxLeaves }
    /\ root = Nil
    /\ lastOp = "New"
    /\ data = <<>> /\ pos = 0
    /\ IdleTH /\ IdleMT /\ IdleSG /\ IdleCR

DoTreeHash ==
    /\ lastOp = "New"
    /\ root' = treeHash(leaves)
    /\ lastOp' = "treeHash"
    /\ UNCHANGED << leaves, data, pos, thVars, mtVars, sgVars, crVars >>

NextReduce == DoTreeHash

SpecReduce == InitReduce /\ [][NextReduce]_vars

\* C3: treeHash returns the root of the level-by-level reduction, pairs hashed
\* in order and the last node of an odd level carried over unchanged: one leaf
\* is its own root, two leaves give SHA256(h1 || h2), three leaves give
\* SHA256(SHA256(h1 || h2) || h3).
C3_TreeHashReduces ==
    lastOp = "treeHash" =>
        /\ root = Reduce(leaves)
        /\ Len(leaves) = 1 => root = leaves[1]
        /\ Len(leaves) = 2 => root = Sum256(leaves[1] \o leaves[2])
        /\ Len(leaves) = 3 =>
               root = Sum256(Sum256(leaves[1] \o leaves[2]) \o leaves[3])

\* C3 witness: five different-looking leaves, an odd level twice (5, then 3)
C3_Witness ==
    /\ lastOp = "treeHash"
    /\ Len(leaves) = 5
    /\ leaves[1] # leaves[2] /\ leaves[4] # leaves[5] /\ leaves[3] # leaves[5]
    /\ root = Sum256(Sum256(Sum256(leaves[1] \o leaves[2])
                            \o Sum256(leaves[3] \o leaves[4])) \o leaves[5])

----------------------------------------------------------------------------
(* NewSignature called by a signer *)

\* the strings of the requests below
Str_SECRET1 == << "w", "J", "a", "l", "r", "X", "U", "t", "n", "F", "E", "M", "I" >>
Str_SECRET2 == << "s" >>
Str_USEAST1 == << "u", "s", "-", "e", "a", "s", "t", "-", "1" >>
Str_EUWEST1 == << "e", "u", "-", "w", "e", "s", "t", "-", "1" >>
Str_GLACIER == << "g", "l", "a", "c", "i", "e", "r" >>
Str_IAM == << "i", "a", "m" >>
Str_ACCESS == << "A", "K", "I", "D", "E", "X", "A", "M", "P", "L", "E" >>
Str_PATHSPACE == << "/", "a", " ", "b", "/" >>
Str_XAMZDATE == << "X", "-", "A", "m", "z", "-", "D", "a", "t", "e" >>
Str_xamzdate == << "x", "-", "a", "m", "z", "-", "d", "a", "t", "e" >>
Str_HOSTHDR == << "H", "o", "s", "t" >>
Str_SPACEDATE == << " ", "D", "a", "t", "e" >>
Str_QUERY1 == << "b", "=", "2", "&", "a", "=", "1", "&", "a", "=", "3" >>
Str_QUERY2 == << "k", "=", "a", "+", "%", "2", "F" >>
Str_QUERYBAD == << "a", "=", "%" >>
Str_GET == << "G", "E", "T" >>
Str_HOSTNAME == << "h", ".", "i", "o" >>

Secrets == { Str_SECRET1, Str_SECRET2, <<>> }
Times == { [year |-> 2012, month |-> 2, day |-> 15],
           [year |-> 2011, month |-> 9, day |-> 9],
           [year |-> 2026, month |-> 11, day |-> 30] }
\* lines 81-86, and two more regions
USEast == [Name |-> Str_USEAST1]
Regions == { USEast, [Name |-> Str_EUWEST1], [Name |-> <<>>] }
Services == { Str_GLACIER, Str_IAM, <<>> }

InitSign ==
    /\ sigArgs \in [k : [Access : {Str_ACCESS}, Secret : Secrets], tm : Times,
                    region : Regions, service : Services]
    /\ sig = Nil
    /\ lastOp = "New"
    /\ data = <<>> /\ pos = 0
    /\ IdleTH /\ IdleMT /\ IdleRD /\ IdleCR

DoNewSignature ==
    /\ lastOp = "New"
    /\ sig' = NewSignature(sigArgs.k, sigArgs.tm, sigArgs.region, sigArgs.service)
    /\ lastOp' = "NewSignature"
    /\ UNCHANGED << sigArgs, data, pos, thVars, mtVars, rdVars, crVars >>

NextSign == DoNewSignature

SpecSign == InitSign /\ [][NextSign]_vars

\* C6: NewSignature returns the signing key, the last of the four chained
\* HMACs: over the date keyed by "AWS4" and the secret, over the region, over
\* the service, over "aws4_request".
C6_SigningKey ==
    lastOp = "NewSignature" =>
        sig = HMAC(HMAC(HMAC(HMAC(AWS4 \o sigArgs.k.Secret, FormatShort(sigArgs.tm)),
                             sigArgs.region.Name),
                        sigArgs.service),
                   AWS4REQUEST)

----------------------------------------------------------------------------
(* CreateCanonicalRequest called on a request, once and once more *)

PathChars == {"/", ".", "a"}
Paths == { p \in SeqsUpTo(PathChars, MaxPath) : Len(p) >= 1 /\ p[1] = "/" }
             \cup { Str_PATHSPACE }

Headers == { <<>>,
             Str_XAMZDATE :> << <<"2">>, <<"1">> >>,
             (Str_XAMZDATE :> << <<"2">> >>) @@ (Str_xamzdate :> << <<"1">> >>),
             Str_HOSTHDR :> << <<"o">> >>,
             (Str_XAMZDATE :> << <<"2">> >>) @@ (Str_SPACEDATE :> << <<"3">> >>) }

Queries == { <<>>, Str_QUERY1, Str_QUERY2, Str_QUERYBAD }

RequestBodies == { <<>>, <<"a", "b">> }

Requests ==
    [Method : {Str_GET}, URL : [Path : Paths, RawQuery : Queries], Header : Headers,
     Host : {Str_HOSTNAME}, Body : [content : RequestBodies, off : {0}]]

\* the orders in which ranging over a map with these keys may visit them
Orders(keys) ==
    { o \in [1..Cardinality(keys) -> keys] :
        \A i, j \in 1..Cardinality(keys) : i # j => o[i] # o[j] }

InitCanon ==
    /\ r \in Requests
    /\ r0 = r
    /\ calls = 0 /\ cr = Nil /\ cr1 = Nil
    /\ lastOp = "New"
    /\ data = <<>> /\ pos = 0
    /\ IdleTH /\ IdleMT /\ IdleRD /\ IdleSG

Returns(out) ==
    /\ cr' = [bytes |-> out.bytes, headers |-> out.headers, err |-> out.err,
              path |-> out.path, block |-> out.block]
    /\ cr1' = IF calls = 0 THEN cr' ELSE cr1
    /\ r' = out.r

DoCreateCanonicalRequest ==
    /\ calls < MaxCalls
    /\ \E order \in Orders(DOMAIN r.Header) : Returns(CreateCanonicalRequest(r, order))
    /\ calls' = calls + 1
    /\ lastOp' = "CreateCanonicalRequest"
    /\ UNCHANGED << r0, data, pos, thVars, mtVars, rdVars, sgVars >>

NextCanon == DoCreateCanonicalRequest

SpecCanon == InitCanon /\ [][NextCanon]_vars

\* the header names of a request that trim and lower-case to h
Variants(req, h) == { n \in DOMAIN req.Header : LowerName(n) = h }

RECURSIVE Concat(_)
Concat(seqs) == IF Len(seqs) = 0 THEN <<>> ELSE Head(seqs) \o Concat(Tail(seqs))

ValuesOfVariants(req, h) ==
    LET names == SetToSeq(Variants(req, h))
    IN  Concat([i \in 1..Len(names) |-> req.Header[names[i]]])

\* each lower-cased name once, "host" among them
CollapsedNames(req) ==
    SortStrings(SetToSeq({ LowerName(n) : n \in DOMAIN req.Header } \cup { HOST }))

RECURSIVE CollapsedBlock(_, _)
CollapsedBlock(req, names) ==
    IF Len(names) = 0 THEN <<>>
    ELSE LET h == Head(names)
             value == IF h = HOST /\ Variants(req, h) = {}
                      THEN req.Host
                      ELSE Join(SortStrings(ValuesOfVariants(req, h)), <<",">>)
         IN  h \o <<":">> \o value \o <<"\n">> \o CollapsedBlock(req, Tail(names))

\* C7: the signed-header list and the header block hold each lower-cased
\* header name once, with the sorted, comma-joined values of all the names
\* that collapse into it; "host" is added only when the request has no host
\* header.
C7_HeadersCollapse ==
    (calls = 1 /\ cr.err = "nil") =>
        /\ cr.headers = CollapsedNames(r0)
        /\ cr.block = CollapsedBlock(r0, CollapsedNames(r0))

\* C8: the canonical path is "/" when the path normalizes to "/"; otherwise it
\* is the encoded normalized path, followed by "/" exactly when the request
\* path ends with "/".
C8_TrailingSlash ==
    (calls = 1 /\ cr.err = "nil") =>
        LET p == r0.URL.Path
            c == Clean(p)
        IN  IF c = <<"/">>
            THEN cr.path = <<"/">>
            ELSE /\ cr.path = EncodeParts(Split(Tail(c), "/"))
                                  \o (IF p[Len(p)] = "/" THEN <<"/">> ELSE <<>>)
                 /\ (cr.path[Len(cr.path)] = "/") <=> (p[Len(p)] = "/")

\* C9: a second call on the same request, with nothing done to it in between,
\* returns the bytes and the signed-header list of the first.
C9_Deterministic ==
    (calls = 2 /\ cr1.err = "nil" /\ cr.err = "nil") =>
        /\ cr.bytes = cr1.bytes
        /\ cr.headers = cr1.headers

====
